---- MODULE Spec2Model ----
(***************************************************************************)
(* The project store of koma (src/unnamed/part_002, "useProjectStore") and *)
(* the guards of src/src/util.ts (debounceAsync, singleAsync), as a state  *)
(* machine.  JavaScript runs one synchronous block at a time: an action is *)
(* one such block, from a call or the resolution of an awaited promise up  *)
(* to the next await.  Inside a block the reactive watchers run            *)
(* synchronously (flush: 'sync'), so a block is computed by threading a    *)
(* record "st" of the fields it touches through the operators below.       *)
(***************************************************************************)
EXTENDS Integers, Sequences, FiniteSets, TLC

\* ------------------------------------------------------------------ bounds
MaxOps == 3        \* calls made by the user interface in one behaviour
MaxEdits == 5      \* the same, where the storage never answers (SpecEdit)

\* --------------------------------------------------------------- constants
Capacity == 400    \* useRefHistory(..., {capacity: 400})
PadWidth == 4      \* frame.toString().padStart(4, '0')

\* ------------------------------------------------------------------- blobs
\* A Blob has an identity (id) and a content (bytes).
Blob(id, bytes) == [id |-> id, bytes |-> bytes]
NoBlob == Blob("undefined", "")
NoFile == ""

NullShot == [kind |-> "null"]
MkShot(lv, jpg, raw) == [kind |-> "shot", lv |-> lv, jpg |-> jpg, raw |-> raw]

ShotX == MkShot(Blob("x.lv", "x.lv"), Blob("x.jpg", "x.jpg"), NoBlob)
ShotY == MkShot(Blob("y.lv", "y.lv"), Blob("y.jpg", "y.jpg"), Blob("y.raw", "y.raw"))
ShotZ == MkShot(Blob("z.lv", "z.lv"), Blob("z.jpg", "z.jpg"), Blob("z.raw", "z.raw"))
ShotW == MkShot(Blob("w.lv", "w.lv"), Blob("w.jpg", "w.jpg"), NoBlob)

\* Inputs of the mutation calls.
Shots == {ShotX, ShotY}

MkKoma(shots, hasBackup, backupShots) ==
    [shots |-> shots, hasBackup |-> hasBackup, backupShots |-> backupShots]
EmptyKoma == MkKoma(<<>>, FALSE, <<>>)

\* ------------------------------------------------------------ the project
emptyProject ==
    [name |-> "Untitled",
     previewRange |-> <<0, 0>>,
     markerSounds |-> {},
     captureShot |-> [frame |-> 0, layer |-> 0],
     komas |-> <<>>,
     layers |-> 0,
     audio |-> [src |-> NoBlob, startFrame |-> 0]]

\* Object.keys(emptyProject), restricted to the fields of the model.
ProjectKeys == <<"name", "previewRange", "markerSounds", "captureShot",
                 "komas", "layers", "audio">>
\* Keys holding a primitive: Vue triggers only when the value changes.  The
\* others hold a fresh object after cloneDeep, unflatten or a snapshot parse,
\* so assigning them always triggers.
PrimitiveKeys == {"name"}
\* The keys the computed undoableData reads.
UndoableKeysAndRange == {"captureShot", "komas", "previewRange"}
UndoableKeys == {"captureShot", "komas"}

\* ------------------------------------------------------------------ roots
NoHandle == "null"
Opfs == "opfs"
DirA == "dirA"
Roots == {Opfs, DirA}
HandleName(h) == IF h = Opfs THEN "" ELSE h

\* ------------------------------------------------------------- serializer
\* String(frame).padStart(4, '0')
PadStart(s) ==
    IF Len(s) >= PadWidth THEN s
    ELSE SubSeq("0000", 1, PadWidth - Len(s)) \o s

\* queryString({layer}) and queryString({backup: index})
QueryString(key, value) == key \o "=" \o ToString(value)

\* saveImageSequence: the filename the blob is saved under.
ImageFilename(basename, frame, extension) ==
    basename \o "_" \o PadStart(ToString(frame)) \o "." \o extension

Basename(name, key, value) == name \o "_" \o QueryString(key, value)
LvFilename(name, frame, key, value) ==
    ImageFilename(Basename(name, key, value) \o "_lv", frame, "jpg")
JpgFilename(name, frame, key, value) ==
    ImageFilename(Basename(name, key, value), frame, "jpg")
RawFilename(name, frame, key, value) ==
    ImageFilename(Basename(name, key, value), frame, "dng")

MarkerFilename(key) == "marker_" \o key \o ".wav"
AudioFilename == "audio.wav"

\* saveShot: the shot with its blobs replaced by their filenames ...
FlatShot(shot, name, frame, key, value) ==
    IF shot = NullShot THEN NullShot
    ELSE MkShot(LvFilename(name, frame, key, value),
                JpgFilename(name, frame, key, value),
                IF shot.raw # NoBlob THEN RawFilename(name, frame, key, value)
                ELSE NoFile)

\* ... and the blobCache.save calls it makes, in order.
ShotWrites(shot, name, frame, key, value) ==
    IF shot = NullShot THEN <<>>
    ELSE <<[file |-> LvFilename(name, frame, key, value), blob |-> shot.lv],
           [file |-> JpgFilename(name, frame, key, value), blob |-> shot.jpg]>>
         \o (IF shot.raw # NoBlob
             THEN <<[file |-> RawFilename(name, frame, key, value), blob |-> shot.raw]>>
             ELSE <<>>)

\* One koma of project.komas, at index frame (0-based).
FlatKoma(koma, name, frame) ==
    MkKoma([l \in 1..Len(koma.shots) |->
                FlatShot(koma.shots[l], name, frame, "layer", l - 1)],
           koma.hasBackup,
           IF koma.hasBackup
           THEN [b \in 1..Len(koma.backupShots) |->
                    FlatShot(koma.backupShots[b], name, frame, "backup", b - 1)]
           ELSE <<>>)

RECURSIVE ConcatAll(_)
ConcatAll(seqs) ==
    IF seqs = <<>> THEN <<>> ELSE Head(seqs) \o ConcatAll(Tail(seqs))

KomaWrites(koma, name, frame) ==
    ConcatAll([l \in 1..Len(koma.shots) |->
                  ShotWrites(koma.shots[l], name, frame, "layer", l - 1)])
    \o (IF koma.hasBackup
        THEN ConcatAll([b \in 1..Len(koma.backupShots) |->
                  ShotWrites(koma.backupShots[b], name, frame, "backup", b - 1)])
        ELSE <<>>)

FlatKomas(komas, name) ==
    [f \in 1..Len(komas) |-> FlatKoma(komas[f], name, f - 1)]
KomasWrites(komas, name) ==
    ConcatAll([f \in 1..Len(komas) |-> KomaWrites(komas[f], name, f - 1)])

\* timeline.markerSounds: a set of [key, blob] entries.
FlatMarkers(markerSounds) ==
    {[key |-> m.key, src |-> MarkerFilename(m.key)] : m \in markerSounds}
RECURSIVE SetToSeq(_)
SetToSeq(S) ==
    IF S = {} THEN <<>>
    ELSE LET e == CHOOSE x \in S : TRUE IN <<e>> \o SetToSeq(S \ {e})
MarkerWrites(markerSounds) ==
    SetToSeq({[file |-> MarkerFilename(m.key), blob |-> m.src] : m \in markerSounds})

FlatAudio(audio) ==
    [src |-> IF audio.src # NoBlob THEN AudioFilename ELSE NoFile,
     startFrame |-> audio.startFrame]
AudioWrites(audio) ==
    IF audio.src # NoBlob THEN <<[file |-> AudioFilename, blob |-> audio.src]>>
    ELSE <<>>

\* ------------------------------------------------------------------ disk
\* A root directory: project.json (manifest) and the other files, each a
\* [name, bytes] entry.
NoManifest == [kind |-> "absent"]
CorruptManifest == [kind |-> "corrupt"]
Manifest(data) == [kind |-> "flat", data |-> data]
EmptyDir == [manifest |-> NoManifest, files |-> {}]

HasFile(dir, name) == \E e \in dir.files : e.name = name
FileBytes(dir, name) == (CHOOSE e \in dir.files : e.name = name).bytes
PutFile(dir, name, bytes) ==
    [dir EXCEPT !.files = {e \in @ : e.name # name} \cup {[name |-> name, bytes |-> bytes]}]

\* Blob Store (blobCache): save(root, filename, blob) skips the write when the
\* same blob was already saved under that filename in that root.  dm is
\* [disk, memo].
BlobSave(dm, root, file, blob) ==
    IF <<root, blob, file>> \in dm.memo THEN dm
    ELSE [disk |-> [dm.disk EXCEPT ![root] = PutFile(@, file, blob.bytes)],
          memo |-> dm.memo \cup {<<root, blob, file>>}]

RECURSIVE ApplyWrites(_, _, _)
ApplyWrites(dm, root, writes) ==
    IF writes = <<>> THEN dm
    ELSE ApplyWrites(BlobSave(dm, root, Head(writes).file, Head(writes).blob),
                     root, Tail(writes))

\* Blob Store open(root, filename): the file as a new Blob.  It throws NotFound
\* for a missing file: the caller sees that first (AssetsLoaded).
BlobOpen(dir, file) ==
    IF HasFile(dir, file) THEN Blob("opened:" \o file, FileBytes(dir, file))
    ELSE Blob("missing:" \o file, "")

\* unflatten (open): every filename of the manifest opened as a Blob.
UnflatShot(dir, shot) ==
    IF shot = NullShot THEN NullShot
    ELSE MkShot(BlobOpen(dir, shot.lv), BlobOpen(dir, shot.jpg),
                IF shot.raw # NoFile THEN BlobOpen(dir, shot.raw) ELSE NoBlob)
ShotFiles(shot) ==
    IF shot = NullShot THEN {} ELSE {shot.lv, shot.jpg} \cup ({shot.raw} \ {NoFile})
KomaFiles(koma) ==
    UNION {ShotFiles(koma.shots[l]) : l \in 1..Len(koma.shots)}
    \cup (IF koma.hasBackup
          THEN UNION {ShotFiles(koma.backupShots[b]) : b \in 1..Len(koma.backupShots)}
          ELSE {})
ManifestFiles(data) ==
    {m.src : m \in data.markerSounds}
    \cup UNION {KomaFiles(data.komas[f]) : f \in 1..Len(data.komas)}
    \cup ({data.audio.src} \ {NoFile})

UnflatKoma(dir, koma) ==
    MkKoma([l \in 1..Len(koma.shots) |-> UnflatShot(dir, koma.shots[l])],
           koma.hasBackup,
           IF koma.hasBackup
           THEN [b \in 1..Len(koma.backupShots) |-> UnflatShot(dir, koma.backupShots[b])]
           ELSE <<>>)

Unflatten(data, dir) ==
    [data EXCEPT
       !.markerSounds = {[key |-> m.key, src |-> BlobOpen(dir, m.src)] : m \in @},
       !.komas = [f \in 1..Len(@) |-> UnflatKoma(dir, @[f])],
       !.audio = [src |-> IF @.src # NoFile THEN BlobOpen(dir, @.src) ELSE NoBlob,
                  startFrame |-> @.startFrame]]

\* deepMergeExceptArray(loaded, defaults): the loaded value wins where
\* present, the default fills a field the manifest lacks.
DeepMergeExceptArray(loaded, defaults) ==
    [k \in DOMAIN loaded \cup DOMAIN defaults |->
        IF k \in DOMAIN loaded THEN loaded[k] ELSE defaults[k]]

\* ------------------------------------------------- the Save Coordinator
\* A synchronous block works on st:
\*   project, handle (directoryHandle), isExecuting, willExecute, runs (the
\*   executions of the save function in flight), suppressed (how many
\*   invocations the in-flight run has suppressed, counted up to MaxCount),
\*   autoSave (the pausable watcher is active), syncCounter and
\*   ignoreCounter (the history's watchIgnorable).
\* A run is one execution of the save function: where it stands (pc), who
\* called it (origin), what it has read so far (root, snap, name, komas,
\* audio), how many suppressed invocations it stands for (coalesced),
\* whether its root was switched or emptied under it (disturbed) and whether
\* the paused watcher dropped a trigger while it was in flight (unwatched).
MaxCount == 2

Min(a, b) == IF a < b THEN a ELSE b

\* {...toRaw(project)} without the keys the literal overrides (timeline's
\* markerSounds is read in the same block and kept here).
Spread(p) ==
    [name |-> p.name, previewRange |-> p.previewRange,
     captureShot |-> p.captureShot, layers |-> p.layers,
     markerSounds |-> p.markerSounds]
NoSpread == Spread(emptyProject)
NoData == [kind |-> "none"]

\* The save function up to its first await: with no directory handle it
\* awaits blobCache.localDir, else it spreads the project and starts saving
\* the marker sounds.
SaveFnStart(st, origin) ==
    LET run == [origin |-> origin,
                coalesced |-> IF origin = "trailing" THEN st.suppressed ELSE 0,
                pc |-> IF st.handle = NoHandle THEN "localDir" ELSE "markers",
                root |-> st.handle,
                snap |-> IF st.handle = NoHandle THEN NoSpread ELSE Spread(st.project),
                name |-> "", komas |-> <<>>, audio |-> emptyProject.audio,
                disturbed |-> FALSE, unwatched |-> FALSE]
    IN [st EXCEPT !.runs = Append(@, run), !.suppressed = 0]

\* debouncedFn, up to "await fn()".
DebouncedFnUnguarded(st, origin) ==
    SaveFnStart([st EXCEPT !.isExecuting = TRUE], origin)
DebouncedFn(st, origin) ==
    IF st.isExecuting
    THEN [st EXCEPT !.willExecute = TRUE, !.suppressed = Min(@ + 1, MaxCount)]
    ELSE SaveFnStart([st EXCEPT !.isExecuting = TRUE], origin)

\* debouncedFn, after "await fn()": the finally block, then (unless fn threw)
\* the trailing run.
DebouncedFnSettledKeepsFlag(st, ok) ==
    LET s1 == [st EXCEPT !.isExecuting = FALSE]
    IN IF ok /\ s1.willExecute THEN DebouncedFn(s1, "trailing") ELSE s1
DebouncedFnSettled(st, ok) ==
    LET s1 == [st EXCEPT !.isExecuting = FALSE]
    IN IF ~ok THEN s1
       ELSE IF s1.willExecute
            THEN DebouncedFn([s1 EXCEPT !.willExecute = FALSE], "trailing")
            ELSE s1

\* autoSave = pausableWatch(project, save, {deep: true, flush: 'sync'}): one
\* call of save per reactive trigger while the watcher is active.
AutoSaveUnlessBusy(st) ==
    IF st.autoSave /\ ~st.isExecuting THEN DebouncedFn(st, "auto") ELSE st
AutoSave(st) ==
    IF st.autoSave THEN DebouncedFn(st, "auto")
    ELSE [st EXCEPT !.runs = [i \in 1..Len(@) |-> [@[i] EXCEPT !.unwatched = TRUE]]]

\* The history's synchronous watcher of undoableData counts the triggers.
HistoryTrigger(st) == [st EXCEPT !.syncCounter = @ + 1]

\* project[key] = value on the reactive project.
SetKey(st, key, value) ==
    IF key \in PrimitiveKeys /\ st.project[key] = value THEN st
    ELSE LET s1 == [st EXCEPT !.project[key] = value]
             s2 == IF key \in UndoableKeys THEN HistoryTrigger(s1) ELSE s1
         IN AutoSave(s2)

\* assignReactive(project, source)
RECURSIVE AssignKeys(_, _, _)
AssignKeys(st, source, keys) ==
    IF keys = <<>> THEN st
    ELSE AssignKeys(SetKey(st, Head(keys), source[Head(keys)]), source, Tail(keys))
AssignReactive(st, source) == AssignKeys(st, source, ProjectKeys)

\* ------------------------------------------------------- the Mutation API
\* setShot: push komas while frame >= komas.length, push null while
\* layer >= shots.length, then assign the slot; every push and the
\* assignment trigger the deep watcher.
RECURSIVE PushKomas(_, _)
PushKomas(st, frame) ==
    IF frame >= Len(st.project.komas)
    THEN PushKomas(AutoSave([st EXCEPT !.project.komas = Append(@, EmptyKoma)]), frame)
    ELSE st
RECURSIVE PushShots(_, _, _)
PushShots(st, frame, layer) ==
    IF layer >= Len(st.project.komas[frame + 1].shots)
    THEN PushShots(AutoSave([st EXCEPT !.project.komas[frame + 1].shots =
                                            Append(@, NullShot)]), frame, layer)
    ELSE st
SetShotSt(st, frame, layer, shot) ==
    LET s2 == PushShots(PushKomas(st, frame), frame, layer)
    IN IF s2.project.komas[frame + 1].shots[layer + 1] = shot THEN s2
       ELSE AutoSave([s2 EXCEPT !.project.komas[frame + 1].shots[layer + 1] = shot])

\* setDuration: push komas while frames >= komas.length.
SetDurationStExact(st, frames) ==
    AutoSave([st EXCEPT !.project.komas =
                 [f \in 1..(frames + 1) |-> IF f <= Len(@) THEN @[f] ELSE EmptyKoma]])
SetDurationSt(st, frames) == PushKomas(st, frames)

\* layer(n): push a layer while n >= layers.length (layers is the length).
RECURSIVE LayerSt(_, _)
LayerSt(st, n) ==
    IF n >= st.project.layers
    THEN LayerSt(AutoSave([st EXCEPT !.project.layers = @ + 1]), n)
    ELSE st

\* allKomas.value.length: the komas and the fill up to the capture cursor,
\* plus one.
AllKomasLength(p) ==
    LET fill == p.captureShot.frame - Len(p.komas) + 1
    IN Len(p.komas) + (IF fill > 0 THEN fill ELSE 0) + 1

\* lodash clamp(number, lower, upper): the upper bound first, then the lower.
Clamp(number, lower, upper) ==
    LET n == IF number <= upper THEN number ELSE upper
    IN IF n >= lower THEN n ELSE lower

\* setInPoint and setOutPoint: the new previewRange.
InPointUnclamped(value, p) == <<value, p.previewRange[2]>>
InPoint(value, p) == <<Min(value, p.previewRange[2]), p.previewRange[2]>>
OutPoint(value, p) ==
    <<p.previewRange[1], Clamp(value, p.previewRange[1], AllKomasLength(p) - 1)>>

\* shot(frame, layer): komas[frame]?.shots?.at(layer) ?? null, where at()
\* counts a negative index from the end.
ShotAt(p, frame, layer) ==
    IF frame < 0 \/ frame >= Len(p.komas) THEN NullShot
    ELSE LET shots == p.komas[frame + 1].shots
             k == IF layer < 0 THEN Len(shots) + layer ELSE layer
         IN IF k < 0 \/ k >= Len(shots) THEN NullShot ELSE shots[k + 1]

\* ------------------------------------------------------------ the history
\* A record of useRefHistory: a cloneDeep of undoableData.  "stale" marks a
\* record of a tree that a createNew or open has since replaced (it is no
\* program state).
Undoable(p) == [captureShot |-> p.captureShot, komas |-> p.komas]
HistoryRecord(p) == [snapshot |-> Undoable(p), stale |-> FALSE]

\* setSource of useRefHistory: ignorePrevAsyncUpdates(), then the setter of
\* undoableData inside ignoreUpdates.
SetSource(st, snapshot) ==
    LET s1 == [st EXCEPT !.ignoreCounter = st.syncCounter]
        s2 == SetKey(SetKey(s1, "captureShot", snapshot.captureShot),
                     "komas", snapshot.komas)
    IN [s2 EXCEPT !.ignoreCounter = @ + (s2.syncCounter - s1.syncCounter)]

\* ------------------------------------------------------------------ state
VARIABLES
    project,          \* reactive(cloneDeep(emptyProject))
    directoryHandle,  \* shallowRef: a root or NoHandle
    disk,             \* the roots' directories
    memo,             \* the Blob Store's memo: <<root, blob, filename>>
    isSaving,         \* debounceAsync: isExecuting
    willExecute,      \* debounceAsync: willExecute
    runs,             \* executions of the save function in flight
    suppressed,       \* invocations suppressed by the guard since the last start
    autoSaveActive,   \* pausableWatch: isActive
    isOpening,        \* singleAsync: isExecuting
    opens,            \* executions of the open function in flight
    undoStack, redoStack, last,   \* useManualRefHistory
    syncCounter, ignoreCounter,   \* watchIgnorable
    saveAsPc,         \* saveAs: idle, picking, saving, resolved, rejected
    saveInOpfsPc,     \* saveInOpfs: idle, localDir, saving, resolved, rejected
    cleanPending,     \* createNew's removal of the entries of the local root
    errorSwallowed,   \* a failed run rejected a promise no caller holds
    ops,              \* calls the user interface may still make
    lastEvent         \* the block that ran last

coordVars == <<project, directoryHandle, isSaving, willExecute, runs, suppressed,
               autoSaveActive, syncCounter, ignoreCounter>>
histVars == <<undoStack, redoStack, last>>
openVars == <<isOpening, opens>>
callerVars == <<saveAsPc, saveInOpfsPc>>
vars == <<project, directoryHandle, disk, memo, isSaving, willExecute, runs,
          suppressed, autoSaveActive, isOpening, opens, undoStack, redoStack,
          last, syncCounter, ignoreCounter, saveAsPc, saveInOpfsPc,
          cleanPending, errorSwallowed, ops, lastEvent>>

St ==
    [project |-> project, handle |-> directoryHandle, isExecuting |-> isSaving,
     willExecute |-> willExecute, runs |-> runs, suppressed |-> suppressed,
     autoSave |-> autoSaveActive, syncCounter |-> syncCounter,
     ignoreCounter |-> ignoreCounter]

Store(st) ==
    /\ project' = st.project
    /\ directoryHandle' = st.handle
    /\ isSaving' = st.isExecuting
    /\ willExecute' = st.willExecute
    /\ runs' = st.runs
    /\ suppressed' = st.suppressed
    /\ autoSaveActive' = st.autoSave
    /\ syncCounter' = st.syncCounter
    /\ ignoreCounter' = st.ignoreCounter

\* The manifest saveJson writes for a run: the spread of the first block,
\* the komas flattened in the second, the audio of the third.
Compose(run) ==
    [name |-> run.snap.name,
     previewRange |-> run.snap.previewRange,
     captureShot |-> run.snap.captureShot,
     layers |-> run.snap.layers,
     markerSounds |-> FlatMarkers(run.snap.markerSounds),
     komas |-> FlatKomas(run.komas, run.name),
     audio |-> FlatAudio(run.audio)]

\* ---------------------------------------------------------------- Init
\* A project saved earlier in the directory the picker offers, by a version
\* whose manifest had no "layers" yet.
DirAProject ==
    [emptyProject EXCEPT
       !.name = DirA,
       !.previewRange = <<0, 1>>,
       !.markerSounds = {[key |-> "m", src |-> Blob("m", "m")]},
       !.captureShot = [frame |-> 1, layer |-> 0],
       !.komas = <<MkKoma(<<NullShot, ShotZ>>, TRUE, <<ShotW>>)>>,
       !.audio = [src |-> Blob("a", "a"), startFrame |-> 0]]
DirAData ==
    LET data == Compose([snap |-> Spread(DirAProject), komas |-> DirAProject.komas,
                         name |-> DirAProject.name, audio |-> DirAProject.audio])
    IN [k \in DOMAIN data \ {"layers"} |-> data[k]]
DirAFiles ==
    ApplyWrites([disk |-> [r \in {DirA} |-> EmptyDir], memo |-> {}], DirA,
                MarkerWrites(DirAProject.markerSounds)
                \o KomasWrites(DirAProject.komas, DirAProject.name)
                \o AudioWrites(DirAProject.audio)).disk[DirA].files
\* The directory as saved, or with one asset file gone.
DirAVariants ==
    {[manifest |-> Manifest(DirAData), files |-> DirAFiles],
     [manifest |-> Manifest(DirAData),
      files |-> {e \in DirAFiles : e.name # AudioFilename}]}

InitStore ==
    /\ project = emptyProject
    /\ directoryHandle = NoHandle
    /\ \E d \in DirAVariants : disk = [r \in Roots |-> IF r = DirA THEN d ELSE EmptyDir]
    /\ memo = {}
    /\ isSaving = FALSE
    /\ willExecute = FALSE
    /\ runs = <<>>
    /\ suppressed = 0
    /\ autoSaveActive = TRUE
    /\ isOpening = FALSE
    /\ opens = <<>>
    /\ undoStack = <<>>
    /\ redoStack = <<>>
    /\ last = HistoryRecord(emptyProject)
    /\ syncCounter = 0
    /\ ignoreCounter = 0
    /\ saveAsPc = "idle"
    /\ saveInOpfsPc = "idle"
    /\ cleanPending = FALSE
    /\ errorSwallowed = FALSE
    /\ lastEvent = "init"

Init == InitStore /\ ops = MaxOps

\* ------------------------------------------------------- calls of the UI
RemoveAt(seq, i) == SubSeq(seq, 1, i - 1) \o SubSeq(seq, i + 1, Len(seq))
Called(event) == ops > 0 /\ ops' = ops - 1 /\ lastEvent' = event

SetShot(frame, layer, shot) ==
    /\ Called("setShot")
    /\ Store(SetShotSt(St, frame, layer, shot))
    /\ UNCHANGED <<disk, memo, openVars, histVars, callerVars, cleanPending,
                   errorSwallowed>>

\* captureShot is exposed by toRefs(project): the UI assigns the cursor.
SetCaptureShot(frame, layer) ==
    /\ Called("setCaptureShot")
    /\ Store(SetKey(St, "captureShot", [frame |-> frame, layer |-> layer]))
    /\ UNCHANGED <<disk, memo, openVars, histVars, callerVars, cleanPending,
                   errorSwallowed>>

SetDuration(frames) ==
    /\ Called("setDuration")
    /\ Store(SetDurationSt(St, frames))
    /\ UNCHANGED <<disk, memo, openVars, histVars, callerVars, cleanPending,
                   errorSwallowed>>

SetInPoint(value) ==
    /\ Called("setInPoint")
    /\ Store(SetKey(St, "previewRange", InPoint(value, project)))
    /\ UNCHANGED <<disk, memo, openVars, histVars, callerVars, cleanPending,
                   errorSwallowed>>

SetOutPoint(value) ==
    /\ Called("setOutPoint")
    /\ Store(SetKey(St, "previewRange", OutPoint(value, project)))
    /\ UNCHANGED <<disk, memo, openVars, histVars, callerVars, cleanPending,
                   errorSwallowed>>

Layer(n) ==
    /\ Called("layer")
    /\ Store(LayerSt(St, n))
    /\ UNCHANGED <<disk, memo, openVars, histVars, callerVars, cleanPending,
                   errorSwallowed>>

\* history.undo: the head of the undo stack becomes the source.
Undo ==
    /\ Called("undo")
    /\ IF undoStack = <<>>
       THEN UNCHANGED <<coordVars, histVars>>
       ELSE /\ undoStack' = Tail(undoStack)
            /\ redoStack' = <<last>> \o redoStack
            /\ last' = Head(undoStack)
            /\ Store(SetSource(St, Head(undoStack).snapshot))
    /\ UNCHANGED <<disk, memo, openVars, callerVars, cleanPending, errorSwallowed>>

Redo ==
    /\ Called("redo")
    /\ IF redoStack = <<>>
       THEN UNCHANGED <<coordVars, histVars>>
       ELSE /\ redoStack' = Tail(redoStack)
            /\ undoStack' = <<last>> \o undoStack
            /\ last' = Head(redoStack)
            /\ Store(SetSource(St, Head(redoStack).snapshot))
    /\ UNCHANGED <<disk, memo, openVars, callerVars, cleanPending, errorSwallowed>>

\* The history's watcher of undoableData (flush: 'pre') runs once the block
\* that triggered it has ended: it commits unless the triggers all came from
\* undo or redo.
HistoryFlush ==
    /\ syncCounter > 0
    /\ lastEvent' = "historyFlush"
    /\ syncCounter' = 0
    /\ ignoreCounter' = 0
    /\ IF ignoreCounter > 0 /\ ignoreCounter = syncCounter
       THEN UNCHANGED histVars
       ELSE /\ undoStack' = SubSeq(<<last>> \o undoStack, 1,
                                   Min(Len(undoStack) + 1, Capacity))
            /\ last' = HistoryRecord(project)
            /\ redoStack' = <<>>
    /\ UNCHANGED <<project, directoryHandle, disk, memo, isSaving, willExecute,
                   runs, suppressed, autoSaveActive, openVars, callerVars,
                   cleanPending, errorSwallowed, ops>>

\* history.clear() of createNew and open, after the tree was replaced: the
\* stacks are emptied and "last" is kept; it is stale when it differs from the
\* tree just installed.
HistoryClear ==
    /\ undoStack' = <<>>
    /\ redoStack' = <<>>
    /\ last' = [last EXCEPT !.stale = (@ \/ last.snapshot # Undoable(project'))]

\* createNew, up to the loop that removes the entries of the local root.
CreateNew ==
    /\ Called("createNew")
    /\ Store(AssignReactive(St, emptyProject))
    /\ HistoryClear
    /\ cleanPending' = (cleanPending \/ HandleName(directoryHandle) = "")
    /\ UNCHANGED <<disk, memo, openVars, callerVars, errorSwallowed>>

\* createNew's loop: removeEntry for every key of the local root.
CreateNewClean ==
    /\ cleanPending
    /\ lastEvent' = "createNewClean"
    /\ cleanPending' = FALSE
    /\ disk' = [disk EXCEPT ![Opfs] = EmptyDir]
    /\ runs' = [i \in 1..Len(runs) |->
                   IF runs[i].root = Opfs THEN [runs[i] EXCEPT !.disturbed = TRUE]
                   ELSE runs[i]]
    /\ UNCHANGED <<project, directoryHandle, memo, isSaving, willExecute,
                   suppressed, autoSaveActive, syncCounter, ignoreCounter,
                   openVars, histVars, callerVars, errorSwallowed, ops>>

\* ------------------------------------------------------ the save function
\* A run entering a block reads directoryHandle again.
Reroot(run, handle) ==
    [run EXCEPT !.root = handle, !.disturbed = @ \/ handle # run.root]

\* "directoryHandle.value = await blobCache.localDir" resolved; then the
\* spread and the calls saving the marker sounds.
SaveLocalDirResolved(i) ==
    /\ runs[i].pc = "localDir"
    /\ lastEvent' = "saveLocalDir"
    /\ directoryHandle' = Opfs
    /\ runs' = [runs EXCEPT ![i] = [@ EXCEPT !.pc = "markers", !.root = Opfs,
                                              !.snap = Spread(project)]]
    /\ UNCHANGED <<project, disk, memo, isSaving, willExecute, suppressed,
                   autoSaveActive, syncCounter, ignoreCounter, openVars, histVars,
                   callerVars, cleanPending, errorSwallowed, ops>>

\* The marker sounds are saved; project.komas is mapped to saveShot calls.
SaveMarkersDone(i) ==
    /\ runs[i].pc = "markers"
    /\ lastEvent' = "saveMarkers"
    /\ LET dm == ApplyWrites([disk |-> disk, memo |-> memo], runs[i].root,
                             MarkerWrites(runs[i].snap.markerSounds))
       IN disk' = dm.disk /\ memo' = dm.memo
    /\ runs' = [runs EXCEPT ![i] =
                   [Reroot(@, directoryHandle) EXCEPT !.pc = "komas",
                        !.name = project.name, !.komas = project.komas]]
    /\ UNCHANGED <<project, directoryHandle, isSaving, willExecute, suppressed,
                   autoSaveActive, syncCounter, ignoreCounter, openVars, histVars,
                   callerVars, cleanPending, errorSwallowed, ops>>

\* The shots are saved; then the audio source is saved if there is one, and
\* else saveJson stringifies the manifest and opens project.json.
SaveKomasDone(i) ==
    /\ runs[i].pc = "komas"
    /\ lastEvent' = "saveKomas"
    /\ LET dm == ApplyWrites([disk |-> disk, memo |-> memo], runs[i].root,
                             KomasWrites(runs[i].komas, runs[i].name))
       IN disk' = dm.disk /\ memo' = dm.memo
    /\ runs' = [runs EXCEPT ![i] =
                   [Reroot(@, directoryHandle) EXCEPT
                        !.pc = IF project.audio.src # NoBlob THEN "audio" ELSE "json",
                        !.audio = project.audio]]
    /\ UNCHANGED <<project, directoryHandle, isSaving, willExecute, suppressed,
                   autoSaveActive, syncCounter, ignoreCounter, openVars, histVars,
                   callerVars, cleanPending, errorSwallowed, ops>>

SaveAudioDone(i) ==
    /\ runs[i].pc = "audio"
    /\ lastEvent' = "saveAudio"
    /\ LET dm == ApplyWrites([disk |-> disk, memo |-> memo], runs[i].root,
                             AudioWrites(runs[i].audio))
       IN disk' = dm.disk /\ memo' = dm.memo
    /\ runs' = [runs EXCEPT ![i] = [Reroot(@, directoryHandle) EXCEPT !.pc = "json"]]
    /\ UNCHANGED <<project, directoryHandle, isSaving, willExecute, suppressed,
                   autoSaveActive, syncCounter, ignoreCounter, openVars, histVars,
                   callerVars, cleanPending, errorSwallowed, ops>>

\* The run of the save function ends (ok, or throwing): debouncedFn goes on,
\* and the promise of that invocation settles for whoever awaits it.
SettleRun(i, ok) ==
    /\ Store(DebouncedFnSettled([St EXCEPT !.runs = RemoveAt(@, i)], ok))
    /\ saveAsPc' = IF runs[i].origin = "saveAs"
                   THEN (IF ok THEN "resolved" ELSE "rejected") ELSE saveAsPc
    /\ saveInOpfsPc' = IF runs[i].origin = "saveInOpfs"
                       THEN (IF ok THEN "resolved" ELSE "rejected") ELSE saveInOpfsPc
    /\ errorSwallowed' = (errorSwallowed \/ (~ok /\ runs[i].origin = "trailing"))

\* saveJson has written project.json.
SaveJsonDone(i) ==
    /\ runs[i].pc = "json"
    /\ lastEvent' = "saveDone"
    /\ disk' = [disk EXCEPT ![runs[i].root].manifest = Manifest(Compose(runs[i]))]
    /\ SettleRun(i, TRUE)
    /\ UNCHANGED <<memo, openVars, histVars, cleanPending, ops>>

\* An awaited storage operation of the run rejects.
SaveRunFails(i) ==
    /\ lastEvent' = "saveFailed"
    /\ SettleRun(i, FALSE)
    /\ UNCHANGED <<disk, memo, openVars, histVars, cleanPending, ops>>

\* ------------------------------------------------- saveAs and saveInOpfs
SaveAsCall ==
    /\ saveAsPc \in {"idle", "resolved", "rejected"}
    /\ Called("saveAs")
    /\ saveAsPc' = "picking"
    /\ UNCHANGED <<coordVars, disk, memo, openVars, histVars, saveInOpfsPc,
                   cleanPending, errorSwallowed>>

\* The picker resolved: the handle is set, an untitled project takes the
\* directory's name, and save() is awaited.
SaveAsPicked ==
    /\ saveAsPc = "picking"
    /\ lastEvent' = "saveAsPicked"
    /\ LET s1 == [St EXCEPT !.handle = DirA]
           s2 == IF s1.project.name = emptyProject.name /\ HandleName(DirA) # ""
                 THEN SetKey(s1, "name", HandleName(DirA)) ELSE s1
       IN /\ Store(DebouncedFn(s2, "saveAs"))
          /\ saveAsPc' = IF s2.isExecuting THEN "resolved" ELSE "saving"
    /\ UNCHANGED <<disk, memo, openVars, histVars, saveInOpfsPc, cleanPending,
                   errorSwallowed, ops>>

\* The picker rejected (cancelled, or permission denied).
SaveAsPickFails ==
    /\ saveAsPc = "picking"
    /\ lastEvent' = "saveAsPickFailed"
    /\ saveAsPc' = "rejected"
    /\ UNCHANGED <<coordVars, disk, memo, openVars, histVars, saveInOpfsPc,
                   cleanPending, errorSwallowed, ops>>

SaveInOpfsCall ==
    /\ saveInOpfsPc \in {"idle", "resolved", "rejected"}
    /\ Called("saveInOpfs")
    /\ saveInOpfsPc' = "localDir"
    /\ UNCHANGED <<coordVars, disk, memo, openVars, histVars, saveAsPc,
                   cleanPending, errorSwallowed>>

SaveInOpfsResolved ==
    /\ saveInOpfsPc = "localDir"
    /\ lastEvent' = "saveInOpfsLocalDir"
    /\ LET s1 == [St EXCEPT !.handle = Opfs]
       IN /\ Store(DebouncedFn(s1, "saveInOpfs"))
          /\ saveInOpfsPc' = IF s1.isExecuting THEN "resolved" ELSE "saving"
    /\ UNCHANGED <<disk, memo, openVars, histVars, saveAsPc, cleanPending,
                   errorSwallowed, ops>>

\* ---------------------------------------------------------------- open
Picker == "picker"

\* The open function up to its first await: with a handler it sets
\* directoryHandle and loadJson asks that directory for project.json; with
\* none it awaits the picker.  so is [isExecuting, opens, handle].
OpenFnStart(so, handler) ==
    IF handler = Picker
    THEN [so EXCEPT !.opens = Append(@, [pc |-> "pick", root |-> NoHandle,
                                          data |-> NoData])]
    ELSE [so EXCEPT !.handle = handler,
                    !.opens = Append(@, [pc |-> "load", root |-> handler,
                                          data |-> NoData])]

\* singleFn, up to "await fn(...arg)" ...
SingleFnUnguarded(so, handler) ==
    OpenFnStart([so EXCEPT !.isExecuting = TRUE], handler)
SingleFn(so, handler) ==
    IF so.isExecuting THEN so
    ELSE OpenFnStart([so EXCEPT !.isExecuting = TRUE], handler)
\* ... and its finally block.
SingleFnSettled(isExecuting) == FALSE

\* open(handler), or open() for the picker; the store calls open(localDir)
\* once the local root is known.
OpenCall(handler) ==
    /\ ops > 0
    /\ ops' = ops - 1
    /\ lastEvent' = IF isOpening THEN "openIgnored" ELSE "openCalled"
    /\ LET so == SingleFn([isExecuting |-> isOpening, opens |-> opens,
                           handle |-> directoryHandle], handler)
       IN /\ isOpening' = so.isExecuting
          /\ opens' = so.opens
          /\ directoryHandle' = so.handle
    /\ UNCHANGED <<project, disk, memo, isSaving, willExecute, runs, suppressed,
                   autoSaveActive, syncCounter, ignoreCounter, histVars,
                   callerVars, cleanPending, errorSwallowed>>

\* showReadwriteDirectoryPicker resolved; loadJson asks for project.json.
OpenPicked(i) ==
    /\ opens[i].pc = "pick"
    /\ lastEvent' = "openPicked"
    /\ directoryHandle' = DirA
    /\ opens' = [opens EXCEPT ![i] = [@ EXCEPT !.pc = "load", !.root = DirA]]
    /\ UNCHANGED <<project, disk, memo, isSaving, willExecute, runs, suppressed,
                   autoSaveActive, syncCounter, ignoreCounter, isOpening,
                   histVars, callerVars, cleanPending, errorSwallowed, ops>>

\* loadJson: getFileHandle finds project.json and JSON.parse accepts it.
LoadJsonOk(dir) == dir.manifest.kind = "flat"

\* The awaited blobCache.open calls of the open function all resolve.
AssetsLoadedButAudio(data, dir) ==
    \A file \in ManifestFiles(data) \ {AudioFilename} : HasFile(dir, file)
AssetsLoaded(data, dir) == \A file \in ManifestFiles(data) : HasFile(dir, file)

\* The manifest is read and parsed; the assets are asked for.
OpenManifestLoaded(i) ==
    /\ opens[i].pc = "load"
    /\ LoadJsonOk(disk[opens[i].root])
    /\ lastEvent' = "openManifest"
    /\ opens' = [opens EXCEPT ![i] = [@ EXCEPT !.pc = "assets",
                                   !.data = disk[opens[i].root].manifest.data]]
    /\ UNCHANGED <<coordVars, disk, memo, isOpening, histVars, callerVars,
                   cleanPending, errorSwallowed, ops>>

\* autoSave.pause(); assignReactive(project, mergedProject); [history.clear()];
\* autoSave.resume()
OpenInstallUnpaused(st, merged) == AssignReactive(st, merged)
OpenInstall(st, merged) ==
    [AssignReactive([st EXCEPT !.autoSave = FALSE], merged) EXCEPT !.autoSave = TRUE]

\* The assets are read: the merged project is installed and open returns.
OpenAssetsLoaded(i) ==
    /\ opens[i].pc = "assets"
    /\ AssetsLoaded(opens[i].data, disk[directoryHandle])
    /\ lastEvent' = "openInstalled"
    /\ Store(OpenInstall(St, DeepMergeExceptArray(
                 Unflatten(opens[i].data, disk[directoryHandle]), emptyProject)))
    /\ HistoryClear
    /\ opens' = RemoveAt(opens, i)
    /\ isOpening' = SingleFnSettled(isOpening)
    /\ UNCHANGED <<disk, memo, callerVars, cleanPending, errorSwallowed, ops>>

\* The open function throws: the picker rejects, project.json is missing or
\* unparsable, or an asset is missing.
OpenThrows(i, event) ==
    /\ lastEvent' = event
    /\ opens' = RemoveAt(opens, i)
    /\ isOpening' = SingleFnSettled(isOpening)
    /\ UNCHANGED <<coordVars, disk, memo, histVars, callerVars, cleanPending,
                   errorSwallowed, ops>>
OpenPickFails(i) ==
    opens[i].pc = "pick" /\ OpenThrows(i, "openFailed:pick")
OpenManifestFails(i) ==
    /\ opens[i].pc = "load"
    /\ ~LoadJsonOk(disk[opens[i].root])
    /\ OpenThrows(i, "openFailed:manifest")
OpenAssetsFail(i) ==
    /\ opens[i].pc = "assets"
    /\ ~AssetsLoaded(opens[i].data, disk[directoryHandle])
    /\ OpenThrows(i, "openFailed:assets")

\* ----------------------------------------------------------------- Next
\* The slots setShot is called for: (frame, layer).
Slots == {<<0, 0>>, <<1, 1>>}

SetShotCalls == \E fl \in Slots, s \in Shots : SetShot(fl[1], fl[2], s)
SetCaptureShotCalls == \E fl \in Slots : SetCaptureShot(fl[1], fl[2])
MutationCalls == SetShotCalls \/ SetCaptureShotCalls

HistorySteps ==
    \/ Undo
    \/ Redo
    \/ HistoryFlush

CreateNewSteps ==
    \/ CreateNew
    \/ CreateNewClean

SaveSteps ==
    \/ \E i \in 1..Len(runs) : SaveLocalDirResolved(i)
    \/ \E i \in 1..Len(runs) : SaveMarkersDone(i)
    \/ \E i \in 1..Len(runs) : SaveKomasDone(i)
    \/ \E i \in 1..Len(runs) : SaveAudioDone(i)
    \/ \E i \in 1..Len(runs) : SaveJsonDone(i)
    \/ \E i \in 1..Len(runs) : SaveRunFails(i)

SaveAsSteps ==
    \/ SaveAsCall
    \/ SaveAsPicked
    \/ SaveAsPickFails
    \/ SaveInOpfsCall
    \/ SaveInOpfsResolved

OpenSteps ==
    \/ \E h \in {Opfs, Picker} : OpenCall(h)
    \/ \E i \in 1..Len(opens) : OpenPicked(i)
    \/ \E i \in 1..Len(opens) : OpenManifestLoaded(i)
    \/ \E i \in 1..Len(opens) : OpenAssetsLoaded(i)
    \/ \E i \in 1..Len(opens) : OpenPickFails(i)
    \/ \E i \in 1..Len(opens) : OpenManifestFails(i)
    \/ \E i \in 1..Len(opens) : OpenAssetsFail(i)

\* The whole store.
Next ==
    \/ MutationCalls
    \/ HistorySteps
    \/ CreateNewSteps
    \/ SaveSteps
    \/ SaveAsSteps
    \/ OpenSteps
Spec == Init /\ [][Next]_vars

\* The Save Coordinator under watcher triggers, saveAs and saveInOpfs, over
\* the empty project and over an opened one.
NextSave == SetCaptureShotCalls \/ SaveSteps \/ SaveAsSteps \/ OpenSteps
SpecSave == Init /\ [][NextSave]_vars

\* open, with mutations and the saves they trigger.
NextOpen == SetShotCalls \/ SaveSteps \/ OpenSteps
SpecOpen == Init /\ [][NextOpen]_vars

\* The history, with createNew and open.
NextHistory ==
    SetCaptureShotCalls \/ HistorySteps \/ CreateNewSteps \/ SaveSteps \/ OpenSteps
SpecHistory == Init /\ [][NextHistory]_vars

\* The Mutation API and the history while the storage does not answer.  The
\* history's watcher is flushed in a microtask, before the next call.
Durations == {0, 1}
Points == {0 - 1, 1, 2}
LayerIndexes == {1}
Flushed == syncCounter = 0
SetDurationCalls == \E frames \in Durations : SetDuration(frames)
SetInPointCalls == \E value \in Points : SetInPoint(value)
SetOutPointCalls == \E value \in Points : SetOutPoint(value)
LayerCalls == \E n \in LayerIndexes : Layer(n)
NextEdit ==
    \/ HistoryFlush
    \/ Flushed /\ SetShotCalls
    \/ Flushed /\ SetCaptureShotCalls
    \/ Flushed /\ SetDurationCalls
    \/ Flushed /\ SetInPointCalls
    \/ Flushed /\ SetOutPointCalls
    \/ Flushed /\ LayerCalls
    \/ Flushed /\ Undo
    \/ Flushed /\ Redo
    \/ Flushed /\ CreateNew
InitEdit == InitStore /\ ops = MaxEdits
SpecEdit == InitEdit /\ [][NextEdit]_vars

\* =============================================================== claims
\* C1: at most one run of the save function executes at any moment, whoever
\* invokes save (the watcher, saveAs, saveInOpfs, the trailing call): an
\* invocation that finds a run in flight starts none, and a run in flight
\* means the guard is set.
C1_AtMostOneRun == Len(runs) <= 1 /\ (runs # <<>> => isSaving)
\* A trailing run is in flight and one more invocation has been suppressed.
C1_Witness == Len(runs) = 1 /\ runs[1].origin = "trailing" /\ willExecute

\* C2: when the run in flight completes, the N >= 1 invocations suppressed
\* during it are followed by exactly one trailing run, which stands for all
\* N, and the request is cleared; with no request pending no run follows.
C2_OneTrailingRun ==
    [][lastEvent' = "saveDone" /\ Len(runs) = 1 =>
          IF suppressed >= 1
          THEN /\ Len(runs') = 1
               /\ runs'[1].origin = "trailing"
               /\ runs'[1].coalesced = suppressed
               /\ isSaving'
               /\ ~willExecute'
          ELSE ~willExecute => runs' = <<>> /\ ~isSaving' /\ ~willExecute']_vars
\* A run has completed and its trailing run stands for two or more
\* suppressed invocations.
C2_Witness ==
    /\ lastEvent = "saveDone"
    /\ Len(runs) = 1
    /\ runs[1].origin = "trailing"
    /\ runs[1].coalesced >= 2

\* C3: an open() arriving while an open is in flight changes nothing (the
\* handle, the tree, the history, the open in flight), and no two executions
\* of the open function are ever in flight, so two calls back to back replace
\* the tree once.
C3_SingleFlightOpen ==
    /\ [](Len(opens) <= 1)
    /\ [][lastEvent' = "openIgnored" =>
             UNCHANGED <<directoryHandle, project, histVars, openVars, disk,
                         runs, isSaving, willExecute>>]_vars
\* A second open() was dropped while the first is still in flight.
C3_Witness == lastEvent = "openIgnored" /\ Len(opens) = 1 /\ isOpening

\* C4: after a run of the save function fails, the coordinator is neither
\* executing nor holding a request for a trailing run.
C4_ReleasedAfterFailure == lastEvent = "saveFailed" => ~isSaving /\ ~willExecute

\* C5: no failed run of the save function rejects a promise that no caller of
\* save, saveAs or saveInOpfs holds.
C5_NoSwallowedError == ~errorSwallowed

\* C6: no block of open but the last touches the tree or the history, a
\* failing open leaves both as they were, and a tree with an asset that could
\* not be read is never installed.
TreeBlobs(p) ==
    {m.src : m \in p.markerSounds} \cup {p.audio.src}
    \cup UNION {UNION {IF shot = NullShot THEN {} ELSE {shot.lv, shot.jpg, shot.raw} :
                         shot \in {p.komas[f].shots[l] : l \in 1..Len(p.komas[f].shots)}
                                  \cup {p.komas[f].backupShots[b] :
                                          b \in 1..Len(p.komas[f].backupShots)}} :
                  f \in 1..Len(p.komas)}
IsMissing(blob) == blob # NoBlob /\ blob.bytes = ""
C6_LoadAllOrNothing ==
    /\ [](\A blob \in TreeBlobs(project) : ~IsMissing(blob))
    /\ [][lastEvent' \in {"openCalled", "openIgnored", "openPicked", "openManifest",
                          "openFailed:pick", "openFailed:manifest",
                          "openFailed:assets"} =>
             UNCHANGED <<project, histVars>>]_vars
\* An open failed on a missing asset, after the manifest was read, over a
\* tree that had content.
C6_Witness == lastEvent = "openFailed:assets" /\ project.komas # <<>>

\* C7: open installs the loaded tree and clears the history without starting
\* or requesting a save, the watcher is active in every state between blocks,
\* and a mutation after it does start or request a save.
InFlight(rs) == [i \in 1..Len(rs) |-> [rs[i] EXCEPT !.unwatched = FALSE]]
C7_OpenPausesAutosave ==
    /\ []autoSaveActive
    /\ [][lastEvent' = "openInstalled" =>
             /\ InFlight(runs') = InFlight(runs)
             /\ isSaving' = isSaving /\ willExecute' = willExecute
             /\ undoStack' = <<>> /\ redoStack' = <<>>]_vars
    /\ [][lastEvent' = "setShot" /\ project' # project =>
             isSaving' /\ (Len(runs') > Len(runs) \/ willExecute')]_vars
\* The saved project was installed with no save in flight or requested.
C7_Witness ==
    /\ lastEvent = "openInstalled"
    /\ project.name = DirA
    /\ Len(project.komas) = 1
    /\ runs = <<>>
    /\ ~willExecute

\* C8: createNew neither starts nor requests a run of the save function.
C8_CreateNewPaused ==
    [][lastEvent' = "createNew" => runs' = runs /\ willExecute' = willExecute]_vars

\* C9: after createNew or a successful open the history is empty, and no
\* undo ever brings back a {captureShot, komas} recorded before it.
C9_NoUndoAcrossReset ==
    /\ [](lastEvent \in {"createNew", "openInstalled"} =>
             undoStack = <<>> /\ redoStack = <<>>)
    /\ [][lastEvent' = "undo" /\ undoStack # <<>> /\ Head(undoStack).stale =>
             Undoable(project') = Undoable(project)]_vars

\* C10: when a run that read every part of the current tree and wrote it into
\* one root has written project.json, opening that root succeeds and yields
\* the tree's content: the bytes of every blob, null slots, and the other
\* fields.
ContentOfShot(shot) ==
    IF shot = NullShot THEN NullShot
    ELSE MkShot(shot.lv.bytes, shot.jpg.bytes, shot.raw.bytes)
ContentOfKoma(koma) ==
    MkKoma([l \in 1..Len(koma.shots) |-> ContentOfShot(koma.shots[l])],
           koma.hasBackup,
           [b \in 1..Len(koma.backupShots) |-> ContentOfShot(koma.backupShots[b])])
Content(p) ==
    [p EXCEPT
       !.markerSounds = {[key |-> m.key, src |-> m.src.bytes] : m \in @},
       !.komas = [f \in 1..Len(@) |-> ContentOfKoma(@[f])],
       !.audio = [src |-> @.src.bytes, startFrame |-> @.startFrame]]
SerializedBy(run, p) ==
    /\ run.snap = Spread(p)
    /\ run.komas = p.komas
    /\ run.name = p.name
    /\ run.audio = p.audio
RoundTrips(dir, p) ==
    /\ LoadJsonOk(dir)
    /\ AssetsLoaded(dir.manifest.data, dir)
    /\ Content(DeepMergeExceptArray(Unflatten(dir.manifest.data, dir), emptyProject))
         = Content(p)
C10_RoundTrip ==
    [][/\ lastEvent' = "saveDone"
       /\ Len(runs) = 1
       /\ ~runs[1].disturbed
       /\ SerializedBy(runs[1], project)
       => RoundTrips(disk'[runs[1].root], project)]_vars

\* C11: every call of the Mutation API that changes {captureShot, komas}
\* (setShot and setDuration included) has the history capture it: the call
\* triggers the history's watcher, between calls the newest record is the
\* current {captureShot, komas}, and undo installs the record below it, the
\* value before the call.
MutationEvents == {"setShot", "setDuration", "setCaptureShot"}
C11_EveryChangeCaptured ==
    /\ [][lastEvent' \in MutationEvents /\ Undoable(project') # Undoable(project) =>
             syncCounter' > syncCounter]_vars
    /\ [](Flushed => last.snapshot = Undoable(project))
    /\ [][lastEvent' = "undo" /\ undoStack # <<>> =>
             Undoable(project') = Head(undoStack).snapshot]_vars

\* C12: undo on an empty log changes nothing; with a record to undo, the
\* record undo leaves for redo is the {captureShot, komas} that held before
\* the undo, redo installs the record left for it, and the restores add no
\* record of their own.
C12_UndoRedoRestores ==
    /\ [][lastEvent' = "undo" /\ undoStack = <<>> =>
             UNCHANGED <<project, histVars>>]_vars
    /\ [][lastEvent' = "undo" /\ undoStack # <<>> =>
             /\ Head(redoStack').snapshot = Undoable(project)
             /\ Len(undoStack') = Len(undoStack) - 1]_vars
    /\ [][lastEvent' = "redo" /\ redoStack # <<>> =>
             /\ Undoable(project') = Head(redoStack).snapshot
             /\ Len(undoStack') = Len(undoStack) + 1]_vars
    /\ [][lastEvent' = "historyFlush" /\ lastEvent \in {"undo", "redo"} =>
             UNCHANGED histVars]_vars

\* C13: undo and redo leave every field but captureShot and komas as it was,
\* and a call that changes only such a field (setInPoint, setOutPoint,
\* layer) neither records nor schedules a history record.
OtherFields(p) == <<p.name, p.previewRange, p.markerSounds, p.layers, p.audio>>
C13_OnlyUndoableFields ==
    /\ [][lastEvent' \in {"undo", "redo"} =>
             OtherFields(project') = OtherFields(project)]_vars
    /\ [][lastEvent' \in {"setInPoint", "setOutPoint", "layer"} =>
             UNCHANGED <<histVars, syncCounter>>]_vars
\* An undo restored a record over a project whose preview range and layers
\* had been changed.
C13_Witness ==
    /\ lastEvent = "undo"
    /\ redoStack # <<>>
    /\ project.previewRange # emptyProject.previewRange
    /\ project.layers > 0

\* C14: in every state, for frame >= 0 and layer >= 0, setShot(frame, layer,
\* s) yields komas of length max(old, frame + 1) whose koma at frame has
\* max(old, layer + 1) shots, s at (frame, layer), null in the new slots,
\* empty new komas and every other slot as before, with the other fields
\* untouched; and setShot, setDuration and layer(n) never shorten komas, a
\* koma's shots or layers.
Indexes == 0..2
Max(a, b) == IF a > b THEN a ELSE b
KomaOrEmpty(komas, f) == IF f <= Len(komas) THEN komas[f] ELSE EmptyKoma
ShotOrNull(shots, l) == IF l <= Len(shots) THEN shots[l] ELSE NullShot
ExpectedKomas(komas, frame, layer, shot) ==
    [f \in 1..Max(Len(komas), frame + 1) |->
        LET koma == KomaOrEmpty(komas, f)
        IN IF f # frame + 1 THEN koma
           ELSE [koma EXCEPT !.shots =
                    [l \in 1..Max(Len(koma.shots), layer + 1) |->
                        IF l = layer + 1 THEN shot ELSE ShotOrNull(koma.shots, l)]]]
NotShorter(before, after) ==
    /\ Len(after.komas) >= Len(before.komas)
    /\ \A f \in 1..Len(before.komas) :
          Len(after.komas[f].shots) >= Len(before.komas[f].shots)
    /\ after.layers >= before.layers
C14_SetShotGrows ==
    /\ \A frame \in Indexes, layer \in Indexes, shot \in Shots :
          LET after == SetShotSt(St, frame, layer, shot).project
          IN /\ after = [project EXCEPT
                           !.komas = ExpectedKomas(@, frame, layer, shot)]
             /\ NotShorter(project, after)
    /\ \A frames \in Indexes :
          LET after == SetDurationSt(St, frames).project
          IN /\ NotShorter(project, after)
             /\ SubSeq(after.komas, 1, Len(project.komas)) = project.komas
    /\ \A n \in Indexes : NotShorter(project, LayerSt(St, n).project)
\* setShot has stored a shot at (1, 1) after creating koma 0 empty and the
\* slot (1, 0) null.
C14_Witness ==
    /\ lastEvent = "setShot"
    /\ Len(project.komas) = 2
    /\ project.komas[1].shots = <<>>
    /\ Len(project.komas[2].shots) = 2
    /\ project.komas[2].shots[1] = NullShot
    /\ project.komas[2].shots[2] # NullShot

\* C15: in every state, shot(frame, layer) is the shot stored at (frame,
\* layer) when frame is an index of komas and layer an index of that koma's
\* shots, and null otherwise (negative frame or layer included).
SignedIndexes == (0 - 2)..2
StoredAt(p, frame, layer) ==
    IF /\ frame \in 0..(Len(p.komas) - 1)
       /\ layer \in 0..(Len(p.komas[frame + 1].shots) - 1)
    THEN p.komas[frame + 1].shots[layer + 1]
    ELSE NullShot
C15_ShotAccessor ==
    \A frame \in SignedIndexes, layer \in SignedIndexes :
       ShotAt(project, frame, layer) = StoredAt(project, frame, layer)

\* C16: in every state and for every integer v, setInPoint(v) sets the
\* in-point to v clamped to [0, previewRange[1]] and leaves the out-point.
C16_InPointClamped ==
    \A value \in SignedIndexes :
       LET range == SetKey(St, "previewRange", InPoint(value, project)).project.previewRange
       IN /\ range[2] = project.previewRange[2]
          /\ range[1] = Max(0, Min(value, project.previewRange[2]))

\* C17: in every state, setOutPoint(v) sets the out-point within
\* [previewRange[0], allKomas.length - 1] and leaves the in-point.
C17_OutPointInRange ==
    \A value \in SignedIndexes :
       LET range == SetKey(St, "previewRange", OutPoint(value, project)).project.previewRange
       IN /\ range[1] = project.previewRange[1]
          /\ range[2] >= project.previewRange[1]
          /\ range[2] <= AllKomasLength(project) - 1

\* C18: previewRange[0] <= previewRange[1] in every state reached from the
\* default project by setInPoint, setOutPoint, setShot, setDuration, undo,
\* redo and createNew.
C18_RangeOrdered == project.previewRange[1] <= project.previewRange[2]
\* setOutPoint was called with the in-point beyond the last valid frame
\* index, where the bounds of its clamp cross.
C18_Witness ==
    /\ lastEvent = "setOutPoint"
    /\ project.previewRange[1] > AllKomasLength(project) - 1

\* C19: while an open is in flight for a root (from the block that set the
\* handle to the block that installs the loaded tree or fails), no step
\* writes project.json or an asset into that root.
C19_NoSaveIntoOpeningRoot ==
    [][opens # <<>> /\ opens[1].root \in Roots =>
          disk'[opens[1].root] = disk[opens[1].root]]_vars

\* C20: saveAs resolves only in the block in which a run of the save
\* function completes (a run started once the chosen root was set), and
\* project.json then exists in the root the run wrote to.
C20_SaveAsAwaitsRun ==
    [][saveAsPc' = "resolved" /\ saveAsPc # "resolved" =>
          /\ lastEvent' = "saveDone"
          /\ \E r \in Roots : /\ disk'[r].manifest # disk[r].manifest
                               /\ LoadJsonOk(disk'[r])]_vars

\* C21: no mutation is lost by coalescing. Every step that changes the tree
\* while the autosave watcher is active (every step but the paused install of
\* open) leaves the coordinator executing, with a run that started after the
\* change or with one more run requested; and when a run succeeds and leaves
\* the coordinator idle (no run in flight, none requested), having missed no
\* trigger of a paused watcher, what it read and saved is the current tree
\* and the manifest it wrote is the serialization of the current tree.
Idle == ~isSaving /\ ~willExecute /\ runs = <<>>
FlatProject(p) ==
    Compose([snap |-> Spread(p), komas |-> p.komas, name |-> p.name,
             audio |-> p.audio])
StartedAfter ==
    /\ runs = <<>>
    /\ Len(runs') = 1
    /\ runs'[1].pc = "localDir" \/ runs'[1].snap = Spread(project')
====
